---- MODULE Spec2Model ----
(***************************************************************************)
(* Model of frontend-mcp-server/demo.py: the coroutine get_react_docs and  *)
(* the __main__ block that runs it with asyncio.run.                       *)
(*                                                                         *)
(* The connector (MCPConnector) is an imported library object; the script  *)
(* only sees each awaited call return, raise an Exception, or be cancelled *)
(* (asyncio.CancelledError, a BaseException that `except Exception` does   *)
(* not catch).  These outcomes are the environment's choice.  print may    *)
(* raise as well (OSError on a broken stdout, AttributeError when          *)
(* result is None and `.result` is read).                                  *)
(*                                                                         *)
(* trace is the observable run in program order: every connector call and *)
(* how it ended, every line written to stdout, every print that raised.    *)
(***************************************************************************)
EXTENDS Naturals, Integers, Sequences, FiniteSets

VARIABLES pc, trace, connector, result, exc, exitStatus

vars == <<pc, trace, connector, result, exc, exitStatus>>

\* ---------------------------------------------------------------- bounds
\* Number of distinct exception messages str(e) the environment may produce.
NumMsgs == 2
\* Number of distinct payloads result.result the tool may return.
NumDocs == 2

Msgs == 1..NumMsgs
Docs == 1..NumDocs

\* ------------------------------------------------------------ exceptions
NoExc == [type |-> "None", msg |-> 0]

\* asyncio.CancelledError: thrown into the coroutine at the await it is
\* suspended in; str(CancelledError()) is the empty message (0).
Cancelled == [type |-> "CancelledError", msg |-> 0]

\* None.result raises AttributeError with a fixed message (0).
AttrError == [type |-> "AttributeError", msg |-> 0]

ExceptionTypes ==
    {"ConnectionError", "InvocationError", "OSError", "AttributeError", "ValueError"}

\* Faulty variant: a bare `except:` (or CancelledError deriving from Exception).
IsExceptionBare(e) == TRUE

\* Faulty variant: `except ConnectionError as e`.
IsExceptionConnOnly(e) == e.type = "ConnectionError"

\* `except Exception as e` matches e.
IsException(e) == e.type \in ExceptionTypes

\* What MCPConnector(...) may raise (outside the try block).
ConstructRaises == {[type |-> "ValueError", msg |-> m] : m \in Msgs}

\* What `await connector.connect()` may raise.
ConnectRaises ==
    {[type |-> "ConnectionError", msg |-> m] : m \in Msgs} \cup {Cancelled}

\* What `await connector.tool_call(...)` may raise.
ToolCallRaises ==
    {[type |-> t, msg |-> m] : t \in {"InvocationError", "ConnectionError"}, m \in Msgs}
        \cup {Cancelled}

\* What `await connector.close()` may raise.
CloseRaises ==
    {[type |-> "ConnectionError", msg |-> m] : m \in Msgs} \cup {Cancelled}

\* What print(...) may raise.
PrintRaises == {[type |-> "OSError", msg |-> m] : m \in Msgs}

\* ---------------------------------------------------------------- values
Unbound == [kind |-> "unbound", result |-> 0]
NoneResult == [kind |-> "None", result |-> 0]
\* Values `await connector.tool_call(...)` may return.
ToolCallReturns == {NoneResult} \cup {[kind |-> "object", result |-> d] : d \in Docs}

\* ----------------------------------------------------------- stdout lines
\* "Retrieved React Documentation for Essential Knowledge:"
HeaderLine == [tag |-> "header", text |-> 0]
\* str(result.result)
ResultLine(r) == [tag |-> "result", text |-> r.result]
\* f"Error: {e}"
ErrorLine(e) == [tag |-> "Error", text |-> e.msg]
NoLine == [tag |-> "none", text |-> 0]

\* ----------------------------------------------------------- trace events
CallEv(o) == [ev |-> "call", op |-> o, exc |-> NoExc, line |-> NoLine]
ReturnEv(o) == [ev |-> "return", op |-> o, exc |-> NoExc, line |-> NoLine]
RaiseEv(o, e) == [ev |-> "raise", op |-> o, exc |-> e, line |-> NoLine]
PrintEv(l) == [ev |-> "print", op |-> "print", exc |-> NoExc, line |-> l]

ConnectReturnedIn(t) ==
    \E i \in DOMAIN t : t[i].ev = "return" /\ t[i].op = "connect"

NumCallsIn(t, o) ==
    Cardinality({i \in DOMAIN t : t[i].ev = "call" /\ t[i].op = o})

\* ----------------------------------------------------------- control flow
\* Faulty variant: the script calls the tool without connecting first.
AfterConstructNoConnect == "call_tool_call"

\* Entering the try block: its first statement is the connect.
AfterConstruct == "call_connect"

\* Faulty variant: the header is printed right after connecting.
AfterConnectPrintFirst == "print_header"

\* connect returned: the next statement is the tool call.
AfterConnectReturned == "call_tool_call"

\* Faulty variant: close guarded by "if connected".
FinallyIfConnected(t) == IF ConnectReturnedIn(t) THEN "call_close" ELSE "leave"

\* The finally block: `await connector.close()`, whatever the run t so far.
Finally(t) == "call_close"

\* Faulty variant: a BaseException leaves the try statement without cleanup.
TryRaiseNoFinally(e, t) == IF IsException(e) THEN "except" ELSE "leave"

\* e raised inside the try body: the handler when it matches, else finally.
TryRaise(e, t) == IF IsException(e) THEN "except" ELSE Finally(t)

\* Faulty variant: no finally clause after the handler.
AfterExceptNoFinally(t) == "leave"

\* Faulty variant: the handler retries the connection once.
AfterExceptRetry(t) ==
    IF NumCallsIn(t, "connect") < 2 THEN "call_connect" ELSE Finally(t)

\* Leaving the except handler (normally or by a new exception).
AfterExcept(t) == Finally(t)

\* Faulty variant: close only on the failure paths.
AfterTryBodyNoFinally(t) == "leave"

\* The try body ran to its end.
AfterTryBody(t) == Finally(t)

\* asyncio.run returns normally -> status 0; an exception escapes -> 1.
ExitStatus(e) == IF e = NoExc THEN 0 ELSE 1

\* ------------------------------------------------------------------- Init
Init ==
    /\ pc = "start"
    /\ trace = <<>>
    /\ connector = "unbound"
    /\ result = Unbound
    /\ exc = NoExc
    /\ exitStatus = -1

\* ---------------------------------------------------------------- actions
\* connector = MCPConnector(server_name=..., service_type=...)
Construct ==
    /\ pc = "start"
    /\ \/ /\ connector' = "constructed"
          /\ pc' = AfterConstruct
          /\ exc' = exc
       \/ \E e \in ConstructRaises :
            /\ connector' = connector
            /\ exc' = e
            /\ pc' = "leave"
    /\ UNCHANGED <<trace, result, exitStatus>>

\* await connector.connect(): the call is issued and the task suspends.
CallConnect ==
    /\ pc = "call_connect"
    /\ trace' = Append(trace, CallEv("connect"))
    /\ pc' = "await_connect"
    /\ UNCHANGED <<connector, result, exc, exitStatus>>

\* The task resumes from connect.
ResumeConnect ==
    /\ pc = "await_connect"
    /\ \/ /\ trace' = Append(trace, ReturnEv("connect"))
          /\ pc' = AfterConnectReturned
          /\ exc' = exc
       \/ \E e \in ConnectRaises :
            /\ trace' = Append(trace, RaiseEv("connect", e))
            /\ exc' = e
            /\ pc' = TryRaise(e, trace')
    /\ UNCHANGED <<connector, result, exitStatus>>

\* result = await connector.tool_call(ToolCallParams(...)): call issued.
CallToolCall ==
    /\ pc = "call_tool_call"
    /\ trace' = Append(trace, CallEv("tool_call"))
    /\ pc' = "await_tool_call"
    /\ UNCHANGED <<connector, result, exc, exitStatus>>

\* The task resumes from tool_call.
ResumeToolCall ==
    /\ pc = "await_tool_call"
    /\ \/ \E r \in ToolCallReturns :
            /\ trace' = Append(trace, ReturnEv("tool_call"))
            /\ result' = r
            /\ pc' = "print_header"
            /\ exc' = exc
       \/ \E e \in ToolCallRaises :
            /\ trace' = Append(trace, RaiseEv("tool_call", e))
            /\ result' = result
            /\ exc' = e
            /\ pc' = TryRaise(e, trace')
    /\ UNCHANGED <<connector, exitStatus>>

\* print("Retrieved React Documentation for Essential Knowledge:")
PrintHeader ==
    /\ pc = "print_header"
    /\ \/ /\ trace' = Append(trace, PrintEv(HeaderLine))
          /\ pc' = "print_result"
          /\ exc' = exc
       \/ \E e \in PrintRaises :
            /\ trace' = Append(trace, RaiseEv("print", e))
            /\ exc' = e
            /\ pc' = TryRaise(e, trace')
    /\ UNCHANGED <<connector, result, exitStatus>>

\* print(result.result)
PrintResult ==
    /\ pc = "print_result"
    /\ IF result.kind # "object"
         THEN /\ trace' = Append(trace, RaiseEv("print", AttrError))
              /\ exc' = AttrError
              /\ pc' = TryRaise(AttrError, trace')
         ELSE \/ /\ trace' = Append(trace, PrintEv(ResultLine(result)))
                 /\ pc' = AfterTryBody(trace')
                 /\ exc' = exc
              \/ \E e \in PrintRaises :
                   /\ trace' = Append(trace, RaiseEv("print", e))
                   /\ exc' = e
                   /\ pc' = TryRaise(e, trace')
    /\ UNCHANGED <<connector, result, exitStatus>>

\* except Exception as e: print(f"Error: {e}")
Except ==
    /\ pc = "except"
    /\ \/ /\ trace' = Append(trace, PrintEv(ErrorLine(exc)))
          /\ exc' = NoExc
       \/ \E e \in PrintRaises :
            /\ trace' = Append(trace, RaiseEv("print", e))
            /\ exc' = e
    /\ pc' = AfterExcept(trace')
    /\ UNCHANGED <<connector, result, exitStatus>>

\* finally: await connector.close(): the call is issued.
CallClose ==
    /\ pc = "call_close"
    /\ trace' = Append(trace, CallEv("close"))
    /\ pc' = "await_close"
    /\ UNCHANGED <<connector, result, exc, exitStatus>>

\* The task resumes from close; a pending exception is re-raised after the
\* finally block, an exception raised by close replaces it.
ResumeClose ==
    /\ pc = "await_close"
    /\ \/ /\ trace' = Append(trace, ReturnEv("close"))
          /\ exc' = exc
       \/ \E e \in CloseRaises :
            /\ trace' = Append(trace, RaiseEv("close", e))
            /\ exc' = e
    /\ pc' = "leave"
    /\ UNCHANGED <<connector, result, exitStatus>>

\* get_react_docs is left: it returns, or the pending exception escapes it.
Leave ==
    /\ pc = "leave"
    /\ pc' = IF exc = NoExc THEN "returned" ELSE "raised"
    /\ UNCHANGED <<trace, connector, result, exc, exitStatus>>

\* asyncio.run(get_react_docs()) ends and the process exits.
Exit ==
    /\ pc \in {"returned", "raised"}
    /\ exitStatus' = ExitStatus(exc)
    /\ pc' = "exited"
    /\ UNCHANGED <<trace, connector, result, exc>>

Next ==
    \/ Construct
    \/ CallConnect
    \/ ResumeConnect
    \/ CallToolCall
    \/ ResumeToolCall
    \/ PrintHeader
    \/ PrintResult
    \/ Except
    \/ CallClose
    \/ ResumeClose
    \/ Leave
    \/ Exit

Spec == Init /\ [][Next]_vars

TypeOK ==
    /\ pc \in {"start", "call_connect", "await_connect", "call_tool_call",
               "await_tool_call", "print_header", "print_result", "except",
               "call_close", "await_close", "leave", "returned",
               "raised", "exited"}
    /\ connector \in {"unbound", "constructed"}
    /\ result \in {Unbound} \cup ToolCallReturns
    /\ exitStatus \in {-1, 0, 1}

\* ------------------------------------------------------ reading the trace
Calls(o) == {i \in DOMAIN trace : trace[i].ev = "call" /\ trace[i].op = o}
Returned(o) == {i \in DOMAIN trace : trace[i].ev = "return" /\ trace[i].op = o}
Raised(o) == {i \in DOMAIN trace : trace[i].ev = "raise" /\ trace[i].op = o}
Printed(tag) == {i \in DOMAIN trace : trace[i].ev = "print" /\ trace[i].line.tag = tag}
ConnectorCalls == {i \in DOMAIN trace : trace[i].ev = "call"}

\* An error in the spec's sense: anything raised except a cancellation.
ErrorsRaised(o) == {i \in Raised(o) : trace[i].exc.type # "CancelledError"}
CancelledIn(o) == {i \in Raised(o) : trace[i].exc = Cancelled}

\* get_react_docs has been left (returned or raised).
Left == pc \in {"returned", "raised", "exited"}

\* close is called exactly once by the time the function is left, never
\* twice before, and no connector call follows it.
CloseOnceAndLast ==
    /\ Cardinality(Calls("close")) <= 1
    /\ \A c \in Calls("close") : \A i \in ConnectorCalls : i <= c
    /\ (pc = "leave" \/ Left) => Cardinality(Calls("close")) = 1

\* ------------------------------------------------------------------- C1
\* C1 as stated: if connect fails with an error, neither tool_call nor
\* close is ever called; only the error message is printed and the run ends
\* with status 0 (taken for runs in which no print raises).
C1_AsStated ==
    (ErrorsRaised("connect") # {}) =>
        /\ Calls("tool_call") = {}
        /\ Calls("close") = {}
        /\ (pc = "exited" /\ Raised("print") = {}) =>
              /\ exitStatus = 0
              /\ Printed("header") \cup Printed("result") = {}

\* C1 amended: if connect raises, tool_call is never called, but close is
\* called exactly once, after the failed connect (the finally block runs);
\* nothing but the Error line for connect's exception is ever printed, and
\* when that line was printed and close returned the run ends with status 0.
C1_ConnectFails ==
    \A i \in Raised("connect") :
        /\ Calls("tool_call") = {}
        /\ CloseOnceAndLast
        /\ \A c \in Calls("close") : c > i
        /\ \A k \in DOMAIN trace :
              trace[k].ev = "print" => trace[k].line = ErrorLine(trace[i].exc)
        /\ (pc = "exited" /\ Printed("Error") # {} /\ Returned("close") # {}) =>
              exitStatus = 0
        /\ (pc = "exited" /\ trace[i].exc.type # "CancelledError"
              /\ Raised("print") = {}) => Cardinality(Printed("Error")) = 1

C1_Witness ==
    /\ pc = "exited"
    /\ ErrorsRaised("connect") # {}
    /\ Cardinality(Calls("close")) = 1
    /\ Returned("close") # {}
    /\ Cardinality(Printed("Error")) = 1
    /\ exitStatus = 0

\* ------------------------------------------------------------------- C2
\* C2: when connect succeeds and the tool_call raises, close is called
\* exactly once, after the failed tool_call.
C2_CloseAfterFailedToolCall ==
    \A i \in Raised("tool_call") :
        (Returned("connect") # {}) =>
            /\ Cardinality(Calls("close")) <= 1
            /\ \A c \in Calls("close") : c > i
            /\ (pc = "leave" \/ Left) => Cardinality(Calls("close")) = 1

C2_Witness ==
    /\ pc = "exited"
    /\ Returned("connect") # {}
    /\ Raised("tool_call") # {}
    /\ Cardinality(Calls("close")) = 1

\* ------------------------------------------------------------------- C3
\* C3: when connect and tool_call both succeed, close is called exactly
\* once, after the connect and the tool_call, and no connect or tool_call
\* follows it.
C3_CloseAfterSuccess ==
    (Returned("connect") # {} /\ Returned("tool_call") # {}) =>
        /\ Cardinality(Calls("close")) <= 1
        /\ \A c \in Calls("close") :
              \A i \in DOMAIN trace :
                  trace[i].op \in {"connect", "tool_call"} => i < c
        /\ (pc = "leave" \/ Left) => Cardinality(Calls("close")) = 1

C3_Witness ==
    /\ pc = "exited"
    /\ Returned("connect") # {}
    /\ Returned("tool_call") # {}
    /\ Printed("result") # {}
    /\ Cardinality(Calls("close")) = 1
    /\ exitStatus = 0

\* ------------------------------------------------------------------- C4
\* C4: when the task is cancelled while suspended in connect or tool_call,
\* the handler is not entered and no Error line is printed, the function
\* does not return normally, and close has been called and has finished
\* before the exception leaves get_react_docs; when close returned, the
\* exception that leaves is the cancellation.
C4_CancelRunsClose ==
    (CancelledIn("connect") \cup CancelledIn("tool_call") # {}) =>
        /\ Printed("Error") = {}
        /\ pc \notin {"except", "returned"}
        /\ (pc = "leave" \/ Left) =>
              /\ Cardinality(Calls("close")) = 1
              /\ Returned("close") \cup Raised("close") # {}
              /\ exc # NoExc
              /\ (Returned("close") # {}) => exc = Cancelled
        /\ (pc = "exited") => exitStatus = 1

C4_Witness ==
    /\ pc = "raised"
    /\ CancelledIn("tool_call") # {}
    /\ Returned("close") # {}
    /\ exc = Cancelled

\* ------------------------------------------------------------------- C5
\* C5: tool_call is issued only after connect has returned successfully
\* and never after close has been called.
C5_ToolCallWhileOpen ==
    /\ \A i \in Calls("tool_call") :
          /\ \E j \in Returned("connect") : j < i
          /\ \A c \in Calls("close") : c > i
    /\ (pc \in {"call_tool_call", "await_tool_call"}) =>
          /\ Returned("connect") # {}
          /\ Calls("close") = {}

C5_Witness ==
    /\ pc = "await_tool_call"
    /\ Calls("tool_call") # {}

\* ------------------------------------------------------------------- C6
\* C6 as stated: whatever error connect, tool_call or close raises, no
\* exception escapes get_react_docs, exactly one Error line is printed and
\* the exit status is 0 (taken for runs in which no print raises and the
\* task is not cancelled).
C6_AsStated ==
    (/\ ErrorsRaised("connect") \cup ErrorsRaised("tool_call")
            \cup ErrorsRaised("close") # {}
     /\ Raised("print") = {}
     /\ \A i \in DOMAIN trace : trace[i].exc # Cancelled) =>
        /\ pc # "raised"
        /\ (pc = "exited") =>
              /\ exitStatus = 0
              /\ Cardinality(Printed("Error")) = 1

\* C6 amended: the handler catches every error raised by connect or
\* tool_call, whatever its kind: exactly one Error line, carrying that
\* error's message, is printed for it (when the print does not raise), and
\* if close then returns nothing escapes and the exit status is 0.  An
\* error raised by close is not caught: it escapes get_react_docs with no
\* Error line of its own and the exit status is 1.
C6_HandlerCatches ==
    /\ \A i \in ErrorsRaised("connect") \cup ErrorsRaised("tool_call") :
          (Left /\ Raised("print") = {}) =>
              /\ Cardinality(Printed("Error")) = 1
              /\ \A k \in Printed("Error") :
                    k > i /\ trace[k].line = ErrorLine(trace[i].exc)
              /\ (Returned("close") # {}) => (pc # "raised" /\ exc = NoExc)
              /\ (pc = "exited" /\ Returned("close") # {}) => exitStatus = 0
    /\ \A c \in Raised("close") :
          /\ \A k \in Printed("Error") : k < c
          /\ Left =>
                /\ pc # "returned"
                /\ exc = trace[c].exc
                /\ (pc = "exited") => exitStatus = 1

C6_Witness ==
    /\ pc = "exited"
    /\ \E i \in ErrorsRaised("tool_call") : trace[i].exc.type = "InvocationError"
    /\ Cardinality(Printed("Error")) = 1
    /\ ErrorsRaised("close") # {}
    /\ exitStatus = 1

\* ------------------------------------------------------------------- C8
\* C8: connect is attempted at most once and tool_call at most once, and
\* after either of them has failed no further connect or tool_call is
\* issued.
C8_NoRetry ==
    /\ Cardinality(Calls("connect")) <= 1
    /\ Cardinality(Calls("tool_call")) <= 1
    /\ \A i \in Raised("connect") \cup Raised("tool_call") :
          \A j \in ConnectorCalls : j > i => trace[j].op = "close"

C8_Witness ==
    /\ pc = "exited"
    /\ ErrorsRaised("connect") # {}
    /\ Printed("Error") # {}
    /\ Cardinality(Calls("connect")) = 1

C10_CloseOnEveryPath ==
    (connector = "constructed") => CloseOnceAndLast

C10_Witness ==
    /\ pc = "exited"
    /\ Raised("connect") # {}
    /\ Returned("connect") = {}
    /\ Cardinality(Calls("close")) = 1
====
